---- MODULE Spec2Model ----
(***************************************************************************)
(* A model of biodbtools' download module (src/src/download.rs) and of its *)
(* alignment catalogue (src/src/alignments.rs): the location descriptor,   *)
(* the transfer engine `download`, the orchestrator `download_all`, and    *)
(* the local filesystem and HTTP server they talk to.                      *)
(***************************************************************************)
EXTENDS Naturals, Sequences, FiniteSets, TLC

VARIABLES
    fs,        \* the local filesystem: path -> [exists, data]
    perm,      \* access mode of the local directory: "rw", "ro" or "none"
    hist,      \* the newest filesystem-level event
    dl,        \* the calls of download(): call id -> frame of the async fn
    batch,     \* the frame of the download_all() call
    task,      \* the tasks download_all spawned: index -> task state
    mp         \* the shared MultiProgress behind Arc<Mutex<_>>

vars == <<fs, perm, hist, dl, batch, task, mp>>

(***************************************************************************)
(* Bounds of the model.                                                    *)
(***************************************************************************)
BodyLen  == 3      \* bytes in a response body
BufCap   == 2      \* capacity of the BufWriter (8 KiB in tokio, scaled down)
MaxChunk == 2      \* largest chunk response.chunk() hands out

(***************************************************************************)
(* Option<T> and Result<(), anyhow::Error>.                                *)
(***************************************************************************)
None == [tag |-> "None"]
Some(v) == [tag |-> "Some", val |-> v]
IsSome(o) == o.tag = "Some"
Ok == [tag |-> "Ok"]
Err(msg) == [tag |-> "Err", msg |-> msg]
Pending == [tag |-> "Pending"]

\* enum LocalFile
LocalFile_Exists == "Exists"
LocalFile_None == "None"

(***************************************************************************)
(* alignments.rs: the constants and the catalogue.                         *)
(***************************************************************************)
SERVER == "https://ftp.ncbi.nlm.nih.gov/genomes/refseq/vertebrate_mammalian/Homo_sapiens/reference/GCF_000001405.40_GRCh38.p14/"
KNOWNFILE == "GCF_000001405.40_GRCh38.p14_knownrefseq_alns.bam"
MODELFILE == "GCF_000001405.40_GRCh38.p14_modelrefseq_alns.bam"
LOCALPATH == "downloads/"

DownloadInfo_new(filename, server, localpath) ==
    [filename |-> filename, server |-> server, localpath |-> localpath]

DownloadInfo_localfile(self) == Some(self.localpath \o self.filename)

DownloadInfo_serverfile(self) == Some(self.server \o self.filename)

BaiFile_new(filename, server, localpath) ==
    [dlinfo |-> DownloadInfo_new(filename, server, localpath)]

\* a BamFile_new that names the index file like its primary
BamFile_new_sameName(filename, server, localpath, aln_type) ==
    [dlinfo   |-> DownloadInfo_new(filename, server, localpath),
     aln_type |-> aln_type,
     bai      |-> BaiFile_new(filename, server, localpath)]

BamFile_new(filename, server, localpath, aln_type) ==
    [dlinfo   |-> DownloadInfo_new(filename, server, localpath),
     aln_type |-> aln_type,
     bai      |-> BaiFile_new(filename \o ".bai", server, localpath)]

Alns_new(known, model) == [known |-> known, model |-> model]

ALIGNMENTS ==
    Alns_new(
        BamFile_new(KNOWNFILE, SERVER \o "RefSeq_transcripts_alignments/",
                    LOCALPATH, "Known"),
        BamFile_new(MODELFILE, SERVER \o "RefSeq_transcripts_alignments/",
                    LOCALPATH, "Model"))

\* enum AlnFileType<'a>: a tagged reference to a BamFile or a BaiFile
AlnFileType_BAM(f) == [variant |-> "BAM", dlinfo |-> f.dlinfo]
AlnFileType_BAI(f) == [variant |-> "BAI", dlinfo |-> f.dlinfo]

Alns_download_pool(self) ==
    Some(<< AlnFileType_BAM(self.known),
            AlnFileType_BAM(self.model),
            AlnFileType_BAI(self.known.bai),
            AlnFileType_BAI(self.model.bai) >>)

(***************************************************************************)
(* Other implementors of Downloadable, as a caller of the generic          *)
(* functions may write them: an item without a descriptor, an item whose   *)
(* localfile() is overridden to yield nothing, and a second descriptor of  *)
(* the known file on another server (same local path).                     *)
(***************************************************************************)
MIRROR == "http://mirror.invalid/"

NoInfoItem == [variant |-> "NoInfo", dlinfo |-> DownloadInfo_new("", "", "")]
NoLocalItem ==
    [variant |-> "NoLocal",
     dlinfo |-> DownloadInfo_new(KNOWNFILE, MIRROR, LOCALPATH)]
MirrorItem ==
    [variant |-> "BAM",
     dlinfo |-> DownloadInfo_new(KNOWNFILE, MIRROR, LOCALPATH)]

(***************************************************************************)
(* trait Downloadable: download_info and the provided methods.             *)
(***************************************************************************)
Downloadable_download_info(self) ==
    IF self.variant = "NoInfo" THEN None ELSE Some(self.dlinfo)

Downloadable_localfile(self) ==
    IF self.variant = "NoLocal" THEN None
    ELSE IF IsSome(Downloadable_download_info(self))
         THEN DownloadInfo_localfile(Downloadable_download_info(self).val)
         ELSE None

Downloadable_serverfile(self) ==
    IF IsSome(Downloadable_download_info(self))
    THEN DownloadInfo_serverfile(Downloadable_download_info(self).val)
    ELSE None

(***************************************************************************)
(* The local filesystem.  All local files live in one directory, whose     *)
(* access mode decides which system calls fail: "rw" none; "ro" creating   *)
(* and unlinking; "none" (no search permission) also stat.                 *)
(***************************************************************************)
Pool == Alns_download_pool(ALIGNMENTS).val

Paths == { Downloadable_localfile(Pool[i]).val : i \in 1..Len(Pool) }

Absent == [exists |-> FALSE, data |-> << >>]
FileOf(data) == [exists |-> TRUE, data |-> data]

\* a complete copy left by an earlier run
OldData == [k \in 1..BodyLen |-> <<"old", k>>]

\* std::path::Path::exists: false when the file is absent and when stat fails
Path_exists(p) == perm # "none" /\ p \in Paths /\ fs[p].exists

\* std::fs::remove_file: whether unlinking p succeeds
remove_file_ok(p) == perm = "rw" /\ p \in Paths /\ fs[p].exists

\* tokio::fs::File::create: whether creating (or truncating) p succeeds
File_create_ok(p) == perm = "rw" /\ p \in Paths

\* hist is the newest event: the operation, its item and result, whether the
\* item's file was there before it, and what it follows directly (prev)
Event(op, item, res, was, prev) ==
    [op |-> op, item |-> item, res |-> res, was |-> was, prev |-> prev]

NoEvent == Event("none", NoInfoItem, Ok, FALSE, "none")

\* "ok" or "err" when the newest event is op on item, by its result
Follows(op, item) ==
    IF hist.op = op /\ hist.item = item
    THEN (IF hist.res = Ok THEN "ok" ELSE "err")
    ELSE "none"

Present(item) ==
    /\ IsSome(Downloadable_localfile(item))
    /\ Downloadable_localfile(item).val \in Paths
    /\ fs[Downloadable_localfile(item).val].exists

(***************************************************************************)
(* DownloadInfo::is_local, DownloadInfo::remove_local and the trait's      *)
(* delegating methods.                                                     *)
(***************************************************************************)
DownloadInfo_is_local(self) ==
    IF Path_exists(DownloadInfo_localfile(self).val)
    THEN Some(LocalFile_Exists)
    ELSE Some(LocalFile_None)

Downloadable_is_local(self) ==
    IF IsSome(Downloadable_download_info(self))
    THEN DownloadInfo_is_local(Downloadable_download_info(self).val)
    ELSE None

\* a remove_local that unlinks without looking: an absent file is an error
DownloadInfo_remove_local_unchecked(self) ==
    LET localfile == DownloadInfo_localfile(self).val IN
    IF remove_file_ok(localfile)
    THEN [res |-> Ok, fs |-> [fs EXCEPT ![localfile] = Absent],
          removed |-> {localfile}]
    ELSE [res |-> Err("io: remove_file"), fs |-> fs, removed |-> {}]

\* the result of remove_local and the filesystem it leaves
DownloadInfo_remove_local(self) ==
    LET localfile == IF IsSome(DownloadInfo_localfile(self))
                     THEN DownloadInfo_localfile(self).val ELSE ""
        lf == DownloadInfo_is_local(self)
    IN  IF IsSome(lf)
        THEN IF lf.val = LocalFile_Exists
             THEN IF remove_file_ok(localfile)
                  THEN [res |-> Ok, fs |-> [fs EXCEPT ![localfile] = Absent],
                        removed |-> {localfile}]
                  ELSE [res |-> Err("io: remove_file"), fs |-> fs, removed |-> {}]
             ELSE [res |-> Ok, fs |-> fs, removed |-> {}]
        ELSE [res |-> Err("Failed to calc is_local"), fs |-> fs, removed |-> {}]

Downloadable_remove_local(self) ==
    IF IsSome(Downloadable_download_info(self))
    THEN DownloadInfo_remove_local(Downloadable_download_info(self).val)
    ELSE [res |-> Err("No DL Info"), fs |-> fs, removed |-> {}]

\* the items the location operations are called on
OpItems == { Pool[1], Pool[3], NoInfoItem }

\* a caller asks whether the item is local
IsLocal(item) ==
    /\ hist' = Event("is_local", item, Downloadable_is_local(item), Present(item),
                     Follows("download", item))
    /\ UNCHANGED <<fs, perm, dl, batch, task, mp>>

\* a caller removes the item's local file; a download still writing to the
\* unlinked file keeps its descriptor, and its bytes no longer reach the path
RemoveLocal(item) ==
    LET r == Downloadable_remove_local(item) IN
    /\ fs' = r.fs
    /\ dl' = [c \in DOMAIN dl |->
                IF dl[c].created /\ dl[c].path \in r.removed
                THEN [dl[c] EXCEPT !.unlinked = TRUE] ELSE dl[c]]
    /\ hist' = Event("remove_local", item, r.res, Present(item),
                     Follows("remove_local", item))
    /\ UNCHANGED <<perm, batch, task, mp>>

\* somebody changes the access mode of the local directory
Chmod(m) ==
    /\ m # perm
    /\ perm' = m
    /\ hist' = Event("chmod", NoInfoItem, Ok, FALSE, "none")
    /\ UNCHANGED <<fs, dl, batch, task, mp>>

(***************************************************************************)
(* The HTTP server: the body it sends for a URL, by status.                *)
(***************************************************************************)
Statuses == {200, 404}

ServerBody(url, status) ==
    IF status = 200
    THEN [k \in 1..BodyLen |-> <<url, k>>]
    ELSE << <<"404 Not Found", 1>> >>

Min(a, b) == IF a < b THEN a ELSE b
Max(a, b) == IF a < b THEN b ELSE a

(***************************************************************************)
(* A file behind a descriptor: bytes are written at the descriptor's       *)
(* offset; a gap left by a truncation underneath reads as zero bytes.      *)
(***************************************************************************)
Zero == <<"", 0>>

WriteAt(data, off, bytes) ==
    [i \in 1..Max(Len(data), off + Len(bytes)) |->
        IF i > off /\ i <= off + Len(bytes) THEN bytes[i - off]
        ELSE IF i <= Len(data) THEN data[i] ELSE Zero]

\* the filesystem after frame f's descriptor has written bytes
FileWrite(f, bytes) ==
    IF f.unlinked \/ bytes = << >> THEN fs
    ELSE [fs EXCEPT ![f.path] = FileOf(WriteAt(@.data, f.off, bytes))]

(***************************************************************************)
(* tokio::io::BufWriter::write(chunk) over a File whose write accepts n    *)
(* bytes: what reaches the file (out) and what stays buffered (buf).  A    *)
(* chunk that does not fit flushes the buffer first; a chunk of at least   *)
(* the capacity goes to the file directly, which may accept only part.     *)
(***************************************************************************)
BufWriter_write(buf, chunk, n) ==
    LET full    == Len(buf) + Len(chunk) > BufCap
        flushed == IF full THEN buf ELSE << >>
        kept    == IF full THEN << >> ELSE buf
    IN  IF Len(chunk) >= BufCap
        THEN [out |-> flushed \o SubSeq(chunk, 1, n), buf |-> kept]
        ELSE [out |-> flushed, buf |-> kept \o chunk]

(***************************************************************************)
(* enum Verbose and the progress bar a transfer drives.                    *)
(***************************************************************************)
NoPb == [attached |-> FALSE, styled |-> FALSE, len |-> 0, pos |-> 0,
         finished |-> FALSE]

\* ProgressBar::new(len)
ProgressBar_new(len) == [attached |-> TRUE, styled |-> FALSE, len |-> len,
                         pos |-> 0, finished |-> FALSE]

\* download's `match verbose`: the bar it will drive, if any
download_pb(verbose, download_size) ==
    CASE verbose = "Ext"  -> [ProgressBar_new(0) EXCEPT !.styled = TRUE]
      [] verbose = "Loud" -> [ProgressBar_new(download_size) EXCEPT !.styled = TRUE]
      [] OTHER            -> NoPb

pb_inc(pb, n) == IF pb.attached THEN [pb EXCEPT !.pos = @ + n] ELSE pb
pb_finish(pb) == IF pb.attached THEN [pb EXCEPT !.finished = TRUE] ELSE pb

(***************************************************************************)
(* async fn download: one frame per call, one action per await point.      *)
(***************************************************************************)
\* the download() calls: "a", and "b" running beside it
CallIds == {"a", "b"}
Solo == {"a"}

IdleFrame ==
    [pc |-> "idle", item |-> NoInfoItem, verbose |-> "Quiet",
     url |-> "", path |-> "", sent |-> FALSE, created |-> FALSE,
     unlinked |-> FALSE, clobbered |-> FALSE, late |-> FALSE,
     status |-> 0, clen |-> None,
     body |-> << >>, rest |-> << >>, cur |-> << >>, buf |-> << >>,
     off |-> 0, recv |-> 0, pb |-> NoPb, result |-> Pending]

DlItems == { Pool[1], MirrorItem, NoInfoItem, NoLocalItem }
DlVerbose == { "Quiet", "Loud", "Ext" }

\* the frame when download returns r
Return(f, r) == [f EXCEPT !.pc = "done", !.result = r]

\* a download that asks for the local path only after sending the request
download_begin_requestFirst(c, item, verbose) ==
    LET f == [IdleFrame EXCEPT !.item = item, !.verbose = verbose] IN
    IF ~IsSome(Downloadable_serverfile(item))
    THEN /\ dl' = [dl EXCEPT ![c] = Return(f, Err("Failed to get server path"))]
         /\ hist' = Event("download", item, Err("Failed to get server path"), Present(item), "none")
    ELSE IF ~IsSome(Downloadable_localfile(item))
    THEN /\ dl' = [dl EXCEPT ![c] = Return([f EXCEPT !.sent = TRUE],
                                           Err("Failed to get local path"))]
         /\ hist' = Event("download", item, Err("Failed to get local path"), Present(item), "none")
    ELSE /\ dl' = [dl EXCEPT ![c] =
                     [f EXCEPT !.pc = "send",
                               !.url = Downloadable_serverfile(item).val,
                               !.path = Downloadable_localfile(item).val]]
         /\ hist' = hist

\* lines 75-83: the paths are taken from the item before anything else
download_begin(c, item, verbose) ==
    LET f == [IdleFrame EXCEPT !.item = item, !.verbose = verbose] IN
    IF ~IsSome(Downloadable_serverfile(item))
    THEN /\ dl' = [dl EXCEPT ![c] = Return(f, Err("Failed to get server path"))]
         /\ hist' = Event("download", item, Err("Failed to get server path"), Present(item), "none")
    ELSE IF ~IsSome(Downloadable_localfile(item))
    THEN /\ dl' = [dl EXCEPT ![c] = Return(f, Err("Failed to get local path"))]
         /\ hist' = Event("download", item, Err("Failed to get local path"), Present(item), "none")
    ELSE /\ dl' = [dl EXCEPT ![c] =
                     [f EXCEPT !.pc = "send",
                               !.url = Downloadable_serverfile(item).val,
                               !.path = Downloadable_localfile(item).val]]
         /\ hist' = hist

Download(c, item, verbose) ==
    /\ dl[c].pc = "idle"
    /\ download_begin(c, item, verbose)
    /\ UNCHANGED <<fs, perm, batch, task, mp>>

\* a download that creates its local file before sending the request
download_send_err_createdFirst(c) ==
    /\ dl' = [dl EXCEPT ![c] = Return([@ EXCEPT !.sent = TRUE, !.created = TRUE],
                                      Err("reqwest: send"))]
    /\ hist' = Event("download", dl[c].item, Err("reqwest: send"), Present(dl[c].item), "none")
    /\ fs' = [fs EXCEPT ![dl[c].path] = FileOf(<< >>)]

\* line 84: send().await? returns the error; nothing has touched the file
download_send_err(c) ==
    /\ dl' = [dl EXCEPT ![c] = Return([@ EXCEPT !.sent = TRUE], Err("reqwest: send"))]
    /\ hist' = Event("download", dl[c].item, Err("reqwest: send"), Present(dl[c].item), "none")
    /\ fs' = fs

\* line 84: the request fails (unreachable host, connection refused)
SendFails(c) ==
    /\ dl[c].pc = "send"
    /\ download_send_err(c)
    /\ UNCHANGED <<perm, batch, task, mp>>

\* a download that looks at the status (error_for_status) before streaming
download_response_checked(f, status, clen) ==
    LET download_size == IF IsSome(clen) THEN clen.val ELSE 0 IN
    IF status = 200
    THEN [f EXCEPT !.pc = "create", !.sent = TRUE, !.status = status,
                   !.clen = clen,
                   !.body = ServerBody(f.url, status),
                   !.rest = ServerBody(f.url, status),
                   !.pb = download_pb(f.verbose, download_size)]
    ELSE Return([f EXCEPT !.sent = TRUE, !.status = status, !.clen = clen],
                Err("reqwest: status"))

\* lines 84-100: the response headers arrive, with any status; the bar is set up
download_response(f, status, clen) ==
    LET download_size == IF IsSome(clen) THEN clen.val ELSE 0 IN
    [f EXCEPT !.pc = "create", !.sent = TRUE, !.status = status,
              !.clen = clen,
              !.body = ServerBody(f.url, status),
              !.rest = ServerBody(f.url, status),
              !.pb = download_pb(f.verbose, download_size)]

Send(c, status, reported) ==
    /\ dl[c].pc = "send"
    /\ dl' = [dl EXCEPT ![c] =
                download_response(@, status,
                    IF reported THEN Some(Len(ServerBody(@.url, status))) ELSE None)]
    /\ UNCHANGED <<fs, perm, hist, batch, task, mp>>

\* the frames after call c has created or truncated its file: an earlier
\* call with the same file open has had it truncated underneath (clobbered)
Truncated(c) ==
    [o \in CallIds |->
        IF o # c /\ dl[o].created /\ ~dl[o].unlinked /\ dl[o].path = dl[c].path
        THEN [dl[o] EXCEPT !.clobbered = TRUE] ELSE dl[o]]

\* whether frame f, writing bytes, writes into a file truncated underneath it
Late(f, bytes) == f.late \/ (f.clobbered /\ ~f.unlinked /\ bytes # << >>)

\* a download that opens its file for writing without truncating it
download_create_keep(c) ==
    IF File_create_ok(dl[c].path)
    THEN /\ fs' = [fs EXCEPT ![dl[c].path] = FileOf(@.data)]
         /\ dl' = [Truncated(c) EXCEPT ![c] =
                     [@ EXCEPT !.pc = "chunk", !.created = TRUE,
                               !.off = 0, !.buf = << >>]]
         /\ hist' = Event("create", dl[c].item, Ok, Present(dl[c].item), "none")
    ELSE /\ fs' = fs
         /\ dl' = [dl EXCEPT ![c] = Return(@, Err("io: create"))]
         /\ hist' = Event("download", dl[c].item, Err("io: create"), Present(dl[c].item), "none")

\* line 101: File::create, which truncates an existing file
download_create(c) ==
    IF File_create_ok(dl[c].path)
    THEN /\ fs' = [fs EXCEPT ![dl[c].path] = FileOf(<< >>)]
         /\ dl' = [Truncated(c) EXCEPT ![c] =
                     [@ EXCEPT !.pc = "chunk", !.created = TRUE,
                               !.off = 0, !.buf = << >>]]
         /\ hist' = Event("create", dl[c].item, Ok, Present(dl[c].item), "none")
    ELSE /\ fs' = fs
         /\ dl' = [dl EXCEPT ![c] = Return(@, Err("io: create"))]
         /\ hist' = Event("download", dl[c].item, Err("io: create"), Present(dl[c].item), "none")

Create(c) ==
    /\ dl[c].pc = "create"
    /\ download_create(c)
    /\ UNCHANGED <<perm, batch, task, mp>>

\* line 103: response.chunk() yields the next n bytes of the body
Chunk(c, n) ==
    /\ dl[c].pc = "chunk"
    /\ n \in 1..Min(MaxChunk, Len(dl[c].rest))
    /\ dl' = [dl EXCEPT ![c] = [@ EXCEPT !.pc = "write",
                                         !.cur = SubSeq(dl[c].rest, 1, n),
                                         !.rest = SubSeq(@, n + 1, Len(@)),
                                         !.recv = @ + n]]
    /\ UNCHANGED <<fs, perm, hist, batch, task, mp>>

\* line 103: response.chunk() yields None at the end of the body
ChunkEnd(c) ==
    /\ dl[c].pc = "chunk"
    /\ dl[c].rest = << >>
    /\ dl' = [dl EXCEPT ![c] = [@ EXCEPT !.pc = "flush"]]
    /\ UNCHANGED <<fs, perm, hist, batch, task, mp>>

\* line 103: the connection drops mid-stream
ChunkFails(c) ==
    /\ dl[c].pc = "chunk"
    /\ dl[c].rest # << >>
    /\ dl' = [dl EXCEPT ![c] = Return(@, Err("reqwest: chunk"))]
    /\ hist' = Event("download", dl[c].item, Err("reqwest: chunk"), Present(dl[c].item), "none")
    /\ UNCHANGED <<fs, perm, batch, task, mp>>

\* a download that finishes the bar in the loop, with the last chunk
download_write_finishEarly(c, n) ==
    LET f == dl[c]
        w == BufWriter_write(f.buf, f.cur, n)
        bar == pb_inc(f.pb, Len(f.cur))
    IN  /\ fs' = FileWrite(f, w.out)
        /\ dl' = [dl EXCEPT ![c] = [f EXCEPT !.pc = "chunk", !.cur = << >>,
                                             !.buf = w.buf,
                                             !.late = Late(f, w.out),
                                             !.off = @ + Len(w.out),
                                             !.pb = IF f.rest = << >>
                                                    THEN pb_finish(bar) ELSE bar]]
        /\ hist' = IF w.out = << >> THEN hist
                   ELSE Event("write", f.item, Ok, Present(f.item), "none")

\* lines 104-108: writer.write(&chunk), its count ignored, then the bar advances
download_write(c, n) ==
    LET f == dl[c]
        w == BufWriter_write(f.buf, f.cur, n)
    IN  /\ fs' = FileWrite(f, w.out)
        /\ dl' = [dl EXCEPT ![c] = [f EXCEPT !.pc = "chunk", !.cur = << >>,
                                             !.buf = w.buf,
                                             !.late = Late(f, w.out),
                                             !.off = @ + Len(w.out),
                                             !.pb = pb_inc(@, Len(f.cur))]]
        /\ hist' = IF w.out = << >> THEN hist
                   ELSE Event("write", f.item, Ok, Present(f.item), "none")

Write(c, n) ==
    /\ dl[c].pc = "write"
    /\ n \in 1..Len(dl[c].cur)
    /\ download_write(c, n)
    /\ UNCHANGED <<perm, batch, task, mp>>

\* line 104: the write fails (disk full, I/O error)
WriteFails(c) ==
    /\ dl[c].pc = "write"
    /\ dl' = [dl EXCEPT ![c] = Return(@, Err("io: write"))]
    /\ hist' = Event("download", dl[c].item, Err("io: write"), Present(dl[c].item), "none")
    /\ UNCHANGED <<fs, perm, batch, task, mp>>

\* lines 110-115: flush the buffer, finish the bar, return Ok
download_flush(c) ==
    LET f == dl[c] IN
    /\ fs' = FileWrite(f, f.buf)
    /\ dl' = [dl EXCEPT ![c] = Return([f EXCEPT !.buf = << >>,
                                                !.late = Late(f, f.buf),
                                                !.off = @ + Len(f.buf),
                                                !.pb = pb_finish(@)], Ok)]
    /\ hist' = Event("download", f.item, Ok, Present(f.item), "none")

Flush(c) ==
    /\ dl[c].pc = "flush"
    /\ download_flush(c)
    /\ UNCHANGED <<perm, batch, task, mp>>

\* line 110: the flush fails
FlushFails(c) ==
    /\ dl[c].pc = "flush"
    /\ dl' = [dl EXCEPT ![c] = Return(@, Err("io: flush"))]
    /\ hist' = Event("download", dl[c].item, Err("io: flush"), Present(dl[c].item), "none")
    /\ UNCHANGED <<fs, perm, batch, task, mp>>

(***************************************************************************)
(* trait MultiDownload: the providers download_all is called with.  The    *)
(* catalogue, a provider that yields nothing, one that yields an empty     *)
(* sequence, and one with two items of its own.                            *)
(***************************************************************************)
Providers == { "Alns", "NoPool", "EmptyPool", "Stubs" }

MultiDownload_download_pool(provider) ==
    CASE provider = "Alns"      -> Alns_download_pool(ALIGNMENTS)
      [] provider = "NoPool"    -> None
      [] provider = "EmptyPool" -> Some(<< >>)
      [] provider = "Stubs"     -> Some(<< MirrorItem, NoInfoItem >>)

AllVerbose == { "Quiet", "Loud", "Ext", "Int" }

\* the tasks of the largest pool
TaskIds == 1..Len(Pool)

(***************************************************************************)
(* async fn download_all.  The display is a MultiProgress behind a Mutex:  *)
(* holder is the task holding the lock (0: free), rows the bars added.     *)
(***************************************************************************)
NoDisplay == [created |-> FALSE, holder |-> 0, poisoned |-> FALSE, rows |-> << >>]
NewDisplay == [created |-> TRUE, holder |-> 0, poisoned |-> FALSE, rows |-> << >>]

IdleBatch == [pc |-> "idle", provider |-> "NoPool", verbose |-> "Quiet",
              dls |-> << >>, next |-> 1, result |-> Pending]

\* a download_all that takes an absent pool for an empty one
download_all_begin_defaultPool(provider, verbose) ==
    LET b == [IdleBatch EXCEPT !.provider = provider, !.verbose = verbose]
        pool == MultiDownload_download_pool(provider)
    IN  /\ batch' = [b EXCEPT !.pc = "spawn",
                              !.dls = IF IsSome(pool) THEN pool.val ELSE << >>]
        /\ mp' = NewDisplay

\* lines 14-22: take the pool or fail; wrap the display in Arc<Mutex<_>>
download_all_begin(provider, verbose) ==
    LET b == [IdleBatch EXCEPT !.provider = provider, !.verbose = verbose]
        pool == MultiDownload_download_pool(provider)
    IN  IF IsSome(pool)
        THEN /\ batch' = [b EXCEPT !.pc = "spawn", !.dls = pool.val]
             /\ mp' = NewDisplay
        ELSE /\ batch' = [b EXCEPT !.pc = "done", !.result = Err("No download pool")]
             /\ mp' = mp

DownloadAll(provider, verbose) ==
    /\ batch.pc = "idle"
    /\ download_all_begin(provider, verbose)
    /\ UNCHANGED <<fs, perm, hist, dl, task>>

\* a task as tokio::task::spawn leaves it: not yet run; its transfer is
\* the future of download(&dl, ..), which does nothing until it is polled
NewTask(item) == [st |-> "spawned", item |-> item, ipb |-> "Quiet",
                  fut |-> "none", transfer |-> "not started"]

\* lines 23-34: one task per item, in the pool's order
Spawn ==
    /\ batch.pc = "spawn"
    /\ IF batch.next <= Len(batch.dls)
       THEN /\ task' = Append(task, NewTask(batch.dls[batch.next]))
            /\ batch' = [batch EXCEPT !.next = @ + 1]
       ELSE /\ task' = task
            /\ batch' = [batch EXCEPT !.pc = "join"]
    /\ UNCHANGED <<fs, perm, hist, dl, mp>>

\* a row of the display: the bar of ProgressBar::new(0) and the task that added it
Row(i) == [owner |-> i, bar |-> ProgressBar_new(0)]

\* line 27: inner_mp.lock().unwrap(); a poisoned mutex makes unwrap panic
task_lock(i) ==
    IF mp.poisoned
    THEN /\ task' = [task EXCEPT ![i].st = "panicked"]
         /\ mp' = mp
    ELSE /\ task' = [task EXCEPT ![i].st = "locked"]
         /\ mp' = [mp EXCEPT !.holder = i]

\* a task that takes the display without waiting for the mutex
TaskLock_noMutex(i) ==
    /\ i \in 1..Len(task)
    /\ task[i].st = "spawned"
    /\ task_lock(i)
    /\ UNCHANGED <<fs, perm, hist, dl, batch>>

TaskLock(i) ==
    /\ i \in 1..Len(task)
    /\ task[i].st = "spawned"
    /\ mp.holder = 0
    /\ task_lock(i)
    /\ UNCHANGED <<fs, perm, hist, dl, batch>>

\* a task that never drops the guard it took (std::mem::forget)
task_add_keepsGuard(i) ==
    /\ task' = [task EXCEPT ![i].st = "added"]
    /\ mp' = [mp EXCEPT !.rows = Append(@, Row(i))]

\* line 27: .add(ProgressBar::new(0)) under the lock; the guard is dropped
\* at the end of the statement
task_add(i) ==
    /\ task' = [task EXCEPT ![i].st = "added"]
    /\ mp' = [mp EXCEPT !.rows = Append(@, Row(i)), !.holder = 0]

TaskAdd(i) ==
    /\ i \in 1..Len(task)
    /\ task[i].st = "locked"
    /\ task_add(i)
    /\ UNCHANGED <<fs, perm, hist, dl, batch>>

\* line 27: add panics on a display the caller handed in (Verbose::Int)
\* whose own lock is poisoned; the unwinding guard poisons the mutex
TaskAddPanics(i) ==
    /\ i \in 1..Len(task)
    /\ task[i].st = "locked"
    /\ batch.verbose = "Int"
    /\ task' = [task EXCEPT ![i].st = "panicked"]
    /\ mp' = [mp EXCEPT !.holder = 0, !.poisoned = TRUE]
    /\ UNCHANGED <<fs, perm, hist, dl, batch>>

\* lines 28-32: ipb is computed and never used; download(&dl, Verbose::Quiet)
\* builds a future that is dropped at the semicolon without being awaited
task_body(t, inner_verbose) ==
    [t EXCEPT !.st = "finished",
              !.ipb = IF inner_verbose = "Quiet" THEN "Quiet" ELSE "Ext",
              !.fut = "dropped",
              !.transfer = "not started"]

TaskBody(i) ==
    /\ i \in 1..Len(task)
    /\ task[i].st = "added"
    /\ task' = [task EXCEPT ![i] = task_body(@, batch.verbose)]
    /\ UNCHANGED <<fs, perm, hist, dl, batch, mp>>

\* line 35: join_all(handles).await resumes when every task has ended
Join ==
    /\ batch.pc = "join"
    /\ \A i \in 1..Len(task) : task[i].st \in {"finished", "panicked"}
    /\ batch' = [batch EXCEPT !.pc = "lock"]
    /\ UNCHANGED <<fs, perm, hist, dl, task, mp>>

\* a download_all that hands a task's JoinError on to its caller
download_all_return_joinError(handles) ==
    IF \E i \in 1..Len(handles) : handles[i].st = "panicked"
    THEN Err("JoinError") ELSE Ok

\* lines 35-37: the JoinHandle results and the LockResult are discarded
download_all_return(handles) == Ok

\* lines 36-37: mp.lock(); Ok(())
Finish ==
    /\ batch.pc = "lock"
    /\ mp.holder = 0
    /\ batch' = [batch EXCEPT !.pc = "done", !.result = download_all_return(task)]
    /\ UNCHANGED <<fs, perm, hist, dl, task, mp>>

(***************************************************************************)
(* The specifications.                                                     *)
(*   Spec      one download() call, any item, display mode and response,   *)
(*             while the directory's access mode changes under it;         *)
(*   SpecLoc   the location operations is_local and remove_local, beside   *)
(*             a plain download of the known file;                         *)
(*   SpecRace  two download() calls writing the same local file;           *)
(*   SpecBatch one download_all() call;                                    *)
(*   SpecBatchFair  the same under fair scheduling.                        *)
(***************************************************************************)
KnownPath == Downloadable_localfile(Pool[1]).val

\* the local directory at the start: empty, holding an earlier copy of the
\* known file, or holding earlier copies of all four files
InitFiles ==
    { [p \in Paths |-> Absent],
      [p \in Paths |-> IF p = KnownPath THEN FileOf(OldData) ELSE Absent],
      [p \in Paths |-> FileOf(OldData)] }

Init ==
    /\ fs \in InitFiles
    /\ perm = "rw"
    /\ hist = NoEvent
    /\ dl = [c \in CallIds |-> IdleFrame]
    /\ batch = IdleBatch
    /\ task = << >>
    /\ mp = NoDisplay

Next ==
    \/ \E c \in Solo, item \in DlItems, v \in DlVerbose : Download(c, item, v)
    \/ \E c \in Solo : SendFails(c)
    \/ \E c \in Solo, status \in Statuses, reported \in BOOLEAN : Send(c, status, reported)
    \/ \E c \in Solo : Create(c)
    \/ \E c \in Solo, n \in 1..MaxChunk : Chunk(c, n)
    \/ \E c \in Solo : ChunkEnd(c)
    \/ \E c \in Solo : ChunkFails(c)
    \/ \E c \in Solo, n \in 1..MaxChunk : Write(c, n)
    \/ \E c \in Solo : WriteFails(c)
    \/ \E c \in Solo : Flush(c)
    \/ \E c \in Solo : FlushFails(c)
    \/ \E m \in {"rw", "ro", "none"} : Chmod(m)

Spec == Init /\ [][Next]_vars

NextLoc ==
    \/ \E item \in OpItems : IsLocal(item)
    \/ \E item \in OpItems : RemoveLocal(item)
    \/ \E m \in {"rw", "ro", "none"} : Chmod(m)
    \/ \E c \in Solo : Download(c, Pool[1], "Quiet")
    \/ \E c \in Solo : SendFails(c)
    \/ \E c \in Solo : Send(c, 200, TRUE)
    \/ \E c \in Solo : Create(c)
    \/ \E c \in Solo, n \in 1..MaxChunk : Chunk(c, n)
    \/ \E c \in Solo : ChunkEnd(c)
    \/ \E c \in Solo, n \in 1..MaxChunk : Write(c, n)
    \/ \E c \in Solo : Flush(c)

SpecLoc == Init /\ [][NextLoc]_vars

\* two transfers into the same local file: the known file from its server
\* ("a") and from the mirror ("b"), both silent, each served in full or
\* answered with an error page
NextRace ==
    \/ Download("a", Pool[1], "Quiet")
    \/ Download("b", MirrorItem, "Quiet")
    \/ \E c \in CallIds, status \in Statuses : Send(c, status, TRUE)
    \/ \E c \in CallIds : Create(c)
    \/ \E c \in CallIds, n \in 1..MaxChunk : Chunk(c, n)
    \/ \E c \in CallIds : ChunkEnd(c)
    \/ \E c \in CallIds, n \in 1..MaxChunk : Write(c, n)
    \/ \E c \in CallIds : Flush(c)

SpecRace == Init /\ [][NextRace]_vars

NextBatch ==
    \/ \E p \in Providers, v \in AllVerbose : DownloadAll(p, v)
    \/ Spawn
    \/ \E i \in TaskIds : TaskLock(i)
    \/ \E i \in TaskIds : TaskAdd(i)
    \/ \E i \in TaskIds : TaskAddPanics(i)
    \/ \E i \in TaskIds : TaskBody(i)
    \/ Join
    \/ Finish

SpecBatch == Init /\ [][NextBatch]_vars

\* the runtime's scheduling: download_all, once called, keeps being polled
\* (lines 23-37), and every spawned task gets to run each of its steps; a
\* task at add either adds its row or panics
FairBatch ==
    /\ WF_vars(Spawn)
    /\ WF_vars(Join)
    /\ WF_vars(Finish)
    /\ \A i \in TaskIds :
          /\ WF_vars(TaskLock(i))
          /\ WF_vars(TaskAdd(i) \/ TaskAddPanics(i))
          /\ WF_vars(TaskBody(i))

SpecBatchFair == Init /\ [][NextBatch]_vars /\ FairBatch

(***************************************************************************)
(* The claims about download_all, checked under SpecBatch.                 *)
(***************************************************************************)
Returned == batch.pc = "done"

\* item's local file holds the full body its server sends
Succeeded(item) ==
    /\ IsSome(Downloadable_localfile(item))
    /\ IsSome(Downloadable_serverfile(item))
    /\ Downloadable_localfile(item).val \in Paths
    /\ fs[Downloadable_localfile(item).val] =
          FileOf(ServerBody(Downloadable_serverfile(item).val, 200))

\* every spawned task ran to its end
NoTaskPanicked == \A i \in 1..Len(task) : task[i].st = "finished"

\* C1: when download_all returns, every item of the pool has had its
\* transfer started and that transfer has succeeded or failed (stated here
\* for the runs in which no task panicked, where it already fails).
C1_TransfersTerminalAtReturn ==
    (Returned /\ batch.result = Ok /\ NoTaskPanicked) =>
        \A i \in 1..Len(batch.dls) :
            /\ i <= Len(task)
            /\ task[i].transfer \in {"succeeded", "failed"}

\* C2: when download_all returns from a batch of N items of which at most
\* one fails, each of the other N-1 items' local files exists and holds the
\* full response body (stated for the runs in which no task panicked).
C2_OthersSucceedAtReturn ==
    (Returned /\ batch.result = Ok /\ NoTaskPanicked /\ Len(batch.dls) >= 2) =>
        \E failed \in 1..Len(batch.dls) :
            \A i \in 1..Len(batch.dls) : i # failed => Succeeded(batch.dls[i])

\* C3: whenever the provider yields a pool, download_all returns success,
\* whatever became of the transfers and of the spawned tasks.
C3_ReturnsOkWheneverPool ==
    (Returned /\ IsSome(MultiDownload_download_pool(batch.provider))) =>
        batch.result = Ok

\* download_all has returned Ok although a task panicked and no transfer succeeded
C3_Witness ==
    /\ Returned
    /\ batch.result = Ok
    /\ \E i \in 1..Len(task) : task[i].st = "panicked"
    /\ \A i \in 1..Len(task) : task[i].transfer # "succeeded"

C10_AlignmentPool ==
    LET d == batch.dls
        info(i) == Downloadable_download_info(d[i]).val
        lf(i) == Downloadable_localfile(d[i])
    IN  (batch.provider = "Alns" /\ batch.pc # "idle") =>
        /\ Len(d) = 4
        /\ <<d[1].variant, d[2].variant, d[3].variant, d[4].variant>>
              = <<"BAM", "BAM", "BAI", "BAI">>
        /\ info(1).filename = KNOWNFILE
        /\ info(2).filename = MODELFILE
        /\ \A i \in 1..2 :
              /\ info(i + 2).filename = info(i).filename \o ".bai"
              /\ info(i + 2).server = info(i).server
              /\ info(i + 2).localpath = info(i).localpath
        /\ \A i, j \in 1..4 : i # j => lf(i) # lf(j)

\* download_all has run to its return on the alignment provider
C10_Witness == batch.provider = "Alns" /\ Returned /\ Len(task) = 4

(***************************************************************************)
(* The claims about download, checked under Spec.                          *)
(***************************************************************************)
HasInfo(item) == IsSome(Downloadable_download_info(item))

\* C5: after download returns success, the local file's size equals the
\* number of body bytes received, for every chunking and every outcome of
\* the write calls, short writes included.
C5_SizeEqualsReceived ==
    \A c \in CallIds :
        (dl[c].pc = "done" /\ dl[c].result = Ok) =>
            /\ fs[dl[c].path].exists
            /\ Len(fs[dl[c].path].data) = dl[c].recv

\* C6: an item without a remote URL or without a local path makes download
\* fail with the missing-path error before any request is sent and before
\* any local file is created or truncated.
C6_MissingPathFailsFirst ==
    \A c \in CallIds :
        ( /\ dl[c].pc # "idle"
          /\ \/ ~IsSome(Downloadable_serverfile(dl[c].item))
             \/ ~IsSome(Downloadable_localfile(dl[c].item)) ) =>
            /\ dl[c].pc = "done"
            /\ dl[c].result \in { Err("Failed to get server path"),
                                  Err("Failed to get local path") }
            /\ ~dl[c].sent
            /\ ~dl[c].created
            /\ fs \in InitFiles

\* download has failed on an item that has a remote URL and no local path
C6_Witness ==
    \E c \in CallIds :
        /\ dl[c].pc = "done"
        /\ IsSome(Downloadable_serverfile(dl[c].item))
        /\ ~IsSome(Downloadable_localfile(dl[c].item))
        /\ dl[c].result = Err("Failed to get local path")

(***************************************************************************)
(* The claims about is_local and remove_local, checked under SpecLoc.      *)
(***************************************************************************)
\* C7 as claimed: of two remove_local calls in a row on an item, with no
\* other filesystem activity in between, the second returns success and the
\* file is absent after it, whatever the state of the file before.
C7_SecondRemoveSucceeds ==
    (hist.op = "remove_local" /\ hist.prev # "none" /\ HasInfo(hist.item)) =>
        /\ hist.res = Ok
        /\ ~Present(hist.item)

\* C7 as amended: of two remove_local calls in a row with no other filesystem
\* activity in between, if the first returns success then so does the second,
\* is_local reports the file absent after it, and the file is absent whenever
\* the directory can be searched; if the first fails because the deletion
\* failed, the file is still there and the second fails as well.
C7_RemoveTwice ==
    (hist.op = "remove_local" /\ HasInfo(hist.item)) =>
        /\ hist.prev = "ok" =>
              /\ hist.res = Ok
              /\ Downloadable_is_local(hist.item) = Some(LocalFile_None)
              /\ perm # "none" => ~Present(hist.item)
        /\ hist.prev = "err" =>
              /\ hist.was
              /\ Present(hist.item)
              /\ hist.res # Ok

\* a second remove_local in a row has returned success, the file being gone
C7_Witness ==
    /\ hist.op = "remove_local"
    /\ HasInfo(hist.item)
    /\ hist.prev = "ok"
    /\ hist.res = Ok
    /\ perm = "rw"
    /\ ~Present(hist.item)

\* C8: is_local returns Exists if and only if a file exists at the item's
\* local path at call time, and it returns Exists when called right after a
\* download of the item has returned success.
C8_IsLocalIffExists ==
    (hist.op = "is_local" /\ HasInfo(hist.item)) =>
        /\ hist.res = Some(LocalFile_Exists) <=> hist.was
        /\ hist.prev = "ok" => hist.res = Some(LocalFile_Exists)

\* C9: when the presence check cannot be performed, is_local fails instead
\* of reporting the file absent, and remove_local returns an error instead
\* of a successful no-op.
C9_FailedCheckIsAnError ==
    (perm = "none" /\ HasInfo(hist.item)) =>
        /\ hist.op = "is_local" => hist.res = None
        /\ hist.op = "remove_local" => hist.res # Ok

(***************************************************************************)
(* The claims about the shared display and the order of the tasks,         *)
(* checked under SpecBatch.                                                *)
(***************************************************************************)
Adding == { i \in 1..Len(task) : task[i].st = "locked" }
RowOwners == { mp.rows[k].owner : k \in 1..Len(mp.rows) }

\* at most one task is adding a row, and it is the one holding the mutex
AddsUnderMutex ==
    /\ Cardinality(Adding) <= 1
    /\ \A i \in Adding : mp.holder = i
    /\ mp.holder # 0 => mp.holder \in Adding

\* every row is as the task that added it left it, one row per such task
RowsUntouched ==
    /\ \A k \in 1..Len(mp.rows) :
          /\ mp.rows[k] = Row(mp.rows[k].owner)
          /\ mp.rows[k].owner \in 1..Len(task)
          /\ task[mp.rows[k].owner].st \in {"added", "finished"}
    /\ \A k, l \in 1..Len(mp.rows) : k # l => mp.rows[k].owner # mp.rows[l].owner

SpawnedInPoolOrder ==
    /\ Len(task) <= Len(batch.dls)
    /\ \A i \in 1..Len(task) : task[i].item = batch.dls[i]
    /\ batch.pc = "spawn" => Len(task) = batch.next - 1

\* the items whose transfer has run to its end
Completed == { i \in 1..Len(task) : task[i].transfer \in {"succeeded", "failed"} }

\* C12: download_all spawns the tasks in the pool's order, and the items'
\* transfers stream and finish in any order.  The second half says that
\* orders of completion are reached; it is stated by what every one of them
\* needs of a run in which all tasks ran to their end: at the return of
\* download_all the transfers of all items have completed.
C12_SpawnOrderAnyCompletionOrder ==
    /\ SpawnedInPoolOrder
    /\ (Returned /\ batch.result = Ok /\ NoTaskPanicked) =>
          Completed = 1..Len(batch.dls)

\* C13: when download_all is called with the silent mode Quiet, no shared
\* display is created and no row is allocated for any item; a display with
\* rows exists only for the other modes.
C13_NoDisplayWhenQuiet ==
    (batch.pc # "idle" /\ batch.verbose = "Quiet") =>
        /\ ~mp.created
        /\ mp.rows = << >>

(***************************************************************************)
(* More claims about download, checked under Spec.                         *)
(***************************************************************************)
\* the errors of the file and of the body stream
IoErrors == { Err("io: create"), Err("reqwest: chunk"), Err("io: write"),
              Err("io: flush") }

\* C14: download does not tell a non-success status from success: for a
\* response with any status whose body streams without I/O error (no call
\* fails and every write takes its whole chunk), download creates the local
\* file, writes the response body into it and returns success.
C14_StatusNotLookedAt ==
    \A c \in CallIds :
        dl[c].status \in Statuses =>
            /\ (dl[c].pc = "done" /\ dl[c].result # Ok) => dl[c].result \in IoErrors
            /\ (dl[c].pc = "done" /\ dl[c].result = Ok) =>
                  /\ dl[c].created
                  /\ fs[dl[c].path].exists
                  /\ dl[c].recv = Len(ServerBody(dl[c].url, dl[c].status))
                  /\ dl[c].off = dl[c].recv =>
                        fs[dl[c].path].data = ServerBody(dl[c].url, dl[c].status)

\* download has returned success on a 404 response, the error page in the file
C14_Witness ==
    \E c \in CallIds :
        /\ dl[c].pc = "done"
        /\ dl[c].result = Ok
        /\ dl[c].status = 404
        /\ fs[dl[c].path] = FileOf(ServerBody(dl[c].url, 404))

\* C15: the bar attached to a transfer (a caller's slot, Ext, or a bar of
\* its own, Loud) has as its total the response's content length when the
\* server reports one and zero otherwise; when the transfer has succeeded its
\* position is the sum of the chunk lengths received and it is finished.
C15_BarTotalAndPosition ==
    \A c \in CallIds :
        (dl[c].status \in Statuses /\ dl[c].pb.attached) =>
            /\ dl[c].pb.len = (IF IsSome(dl[c].clen) THEN dl[c].clen.val ELSE 0)
            /\ (dl[c].pc = "done" /\ dl[c].result = Ok) =>
                  /\ dl[c].pb.pos = dl[c].recv
                  /\ dl[c].pb.finished

\* a complete copy of a file: an earlier copy, or a whole body of the server
CompleteCopies(url) == { OldData } \cup { ServerBody(url, st) : st \in Statuses }

BothSucceeded(c, o) ==
    /\ c # o
    /\ dl[c].pc = "done" /\ dl[c].result = Ok
    /\ dl[o].pc = "done" /\ dl[o].result = Ok
    /\ dl[c].path = dl[o].path

\* every write of call c took its whole chunk
NoShortWrite(c) == dl[c].off = dl[c].recv

\* C17 as claimed: once two transfers into the same local path have both
\* returned success, the file holds exactly the complete body of the one
\* that created the file last, and no byte of the other's (stated for the
\* runs without a short write, where it already fails).
C17_LastCreatorWins ==
    \A c, o \in CallIds :
        (BothSucceeded(c, o) /\ ~dl[c].clobbered
            /\ NoShortWrite(c) /\ NoShortWrite(o)) =>
            fs[dl[c].path].data = dl[c].body

\* C17 as amended: once both have returned success, the file holds exactly
\* the complete body of the transfer that created the file last provided the
\* other transfer wrote nothing to the file after that creation and every
\* write of the last creator took its whole chunk; a transfer that goes on
\* writing after its file was truncated underneath leaves its bytes, at its
\* own offsets, in the other's file.
C17_LastCreatorWinsUnlessLateWrite ==
    \A c, o \in CallIds :
        (BothSucceeded(c, o) /\ ~dl[c].clobbered) =>
            /\ dl[o].clobbered
            /\ fs[dl[c].path].exists
            /\ (NoShortWrite(c) /\ ~dl[o].late) =>
                  fs[dl[c].path].data = dl[c].body
            /\ (NoShortWrite(c) /\ NoShortWrite(o)
                    /\ fs[dl[c].path].data # dl[c].body) => dl[o].late

\* both transfers have succeeded, the first having started to write before
\* the second truncated the file, and the file is the second's body
C17_Witness ==
    \E c, o \in CallIds :
        /\ BothSucceeded(c, o)
        /\ ~dl[c].clobbered
        /\ dl[o].clobbered
        /\ ~dl[o].late
        /\ dl[o].off > 0
        /\ fs[dl[c].path].data = dl[c].body

(***************************************************************************)
(* The claim about a request that fails, checked under Spec (where only    *)
(* download writes to the directory).                                      *)
(***************************************************************************)
\* C18: a download whose request fails before the response headers arrive
\* leaves the filesystem as it was (an earlier local file keeps its full
\* content), and the local file is created only after a response has been
\* returned.
C18_FailedRequestLeavesFiles ==
    \A c \in CallIds :
        /\ (dl[c].pc = "done" /\ dl[c].result = Err("reqwest: send")) =>
              /\ ~dl[c].created
              /\ fs \in InitFiles
              /\ hist.was => fs[dl[c].path] = FileOf(OldData)
        /\ dl[c].created => (dl[c].sent /\ dl[c].status \in Statuses)

\* the request for a file with an earlier local copy has failed
C18_Witness ==
    \E c \in CallIds :
        /\ dl[c].pc = "done"
        /\ dl[c].result = Err("reqwest: send")
        /\ fs[dl[c].path] = FileOf(OldData)

(***************************************************************************)
(* The claim about termination, checked under SpecBatchFair.               *)
(***************************************************************************)
\* the mutex is held only by a task that is adding its row, never by one
\* that has gone on to its transfer or has ended; download_all reaches its
\* own lock() only when every task has ended and the mutex is free
MutexDiscipline ==
    /\ mp.holder # 0 =>
          /\ mp.holder \in 1..Len(task)
          /\ task[mp.holder].st = "locked"
    /\ \A i \in 1..Len(task) :
          task[i].st \in {"added", "finished", "panicked"} => mp.holder # i
    /\ batch.pc \in {"lock", "done"} =>
          /\ mp.holder = 0
          /\ \A i \in 1..Len(task) : task[i].st \in {"finished", "panicked"}

\* C19: download_all never deadlocks on the display mutex and, under fair
\* scheduling with every spawned task running to its end, eventually
\* returns: a task holds the mutex only while adding its row and releases
\* it before its transfer, and download_all locks only after the join.
C19_ReturnsWithoutDeadlock ==
    /\ [](MutexDiscipline)
    /\ (batch.pc # "idle") ~> Returned

\* download_all has returned after several tasks took the mutex in turn
C19_Witness ==
    /\ Returned
    /\ batch.pc = "done"
    /\ Len(task) >= 2
    /\ Len(mp.rows) >= 2
    /\ mp.holder = 0

====
